---- MODULE Spec2Model ----
(***************************************************************************)
(* gemini-to-openai-proxy: the embeddings and models handlers of main.go,  *)
(* the request/response converters of pkg/openai/gemini.go and the         *)
(* round-robin counter over the pool of upstream clients.                  *)
(*                                                                         *)
(* Every in-flight HTTP request is one slot of Req.  A handler is cut into *)
(* steps only where it blocks on the upstream or touches the shared        *)
(* counter; everything between two such points is one action.              *)
(***************************************************************************)
EXTENDS Integers, Sequences, FiniteSets, TLC

(***************************************************************************)
(* Bounds of the model.                                                    *)
(***************************************************************************)
MaxRequests == 2      \* request slots (requests in flight together)
MaxLen == 2           \* longest input array / upstream result
MaxCatalog == 2       \* longest upstream model catalog
MaxClients == 3       \* largest pool of upstream clients
MaxServed == 2        \* embeddings requests served before the first state

(***************************************************************************)
(* Program constants.                                                      *)
(***************************************************************************)
MaxInt32 == 2147483647
MinInt32 == -MaxInt32 - 1

StatusNone == 0                       \* nothing written (handler panicked)
StatusOK == 200
StatusBadRequest == 400
StatusMethodNotAllowed == 405
StatusInternalServerError == 500

Req == 1 .. MaxRequests

(***************************************************************************)
(* JSON values as json.Unmarshal leaves them in an interface{}: string,    *)
(* float64 ("number"), bool, nil (absent or null), map ("object") and      *)
(* []interface{} ("array").  Every value carries the same three fields.    *)
(***************************************************************************)
Strings == {"a", "b"}

Scalar(k, s) == [kind |-> k, str |-> s, elems |-> << >>]

Str(s) == Scalar("string", s)

Elements == {Str(s) : s \in Strings} \cup {Scalar("number", "7")}

SeqsUpTo(S, n) == UNION {[1 .. k -> S] : k \in 0 .. n}

Array(es) == [kind |-> "array", str |-> "", elems |-> es]

NonTextShapes ==
    {Scalar("number", "7"), Scalar("bool", "true"), Scalar("nil", ""),
     Scalar("object", "")}

Inputs ==
    {Str("a")} \cup NonTextShapes
        \cup {Array(es) : es \in SeqsUpTo(Elements, MaxLen)}

EncodingFormats == {"", "float", "base64"}

ModelName == "embedding-001"

\* openai.EmbedRequest (Dimensions and User are never read)
EmbedRequest ==
    [Input : Inputs, Model : {ModelName}, EncodingFormat : EncodingFormats]

NoRequest == [Input |-> Scalar("nil", ""), Model |-> "", EncodingFormat |-> ""]

Methods == {"GET", "POST", "PUT"}

\* what io.ReadAll and json.Unmarshal make of the body
BodyStates == {"unreadable", "malformed", "parsed"}

\* embedding vectors returned by the upstream
Vectors == {<<0>>, <<1>>}

EmbedResults == SeqsUpTo(Vectors, MaxLen)

\* genai.ModelInfo: Name and SupportedGenerationMethods
GenerationMethods == {"embedContent", "generateContent"}

ModelInfos == [Name : {"models/m1", "models/m2"},
               SupportedGenerationMethods : SUBSET GenerationMethods]

Catalogs == SeqsUpTo(ModelInfos, MaxCatalog)

(***************************************************************************)
(* Integer arithmetic of Go.                                               *)
(***************************************************************************)
\* mutant: the counter is read with Load() and never advanced
AddInt32_LoadOnly(c, d) == c

\* atomic.Int32.Add: two's-complement addition of a delta 0 <= d
AddInt32(c, d) ==
    IF c > MaxInt32 - d THEN MinInt32 + (d - (MaxInt32 - c) - 1) ELSE c + d

\* the % operator: the remainder has the sign of the dividend
Rem(a, n) ==
    IF a >= 0 THEN a % n
    ELSE IF a = MinInt32 THEN -(((MaxInt32 % n) + 1) % n)
    ELSE -((-a) % n)

(***************************************************************************)
(* pkg/openai/gemini.go                                                    *)
(***************************************************************************)
ConvError == [err |-> TRUE, batch |-> << >>]

\* the loop over the elements of an array input, from element i on
RECURSIVE AddContents(_, _, _)
AddContents(v, i, batch) ==
    IF i > Len(v) THEN [err |-> FALSE, batch |-> batch]
    ELSE IF v[i].kind = "string"
         THEN AddContents(v, i + 1, Append(batch, v[i].str))
         ELSE ConvError

\* the guard on encoding_format
UnsupportedEncodingFormat(format) == format /= "" /\ format /= "float"

\* the batch is the sequence of texts added to model.NewBatch()
ConvertOpenAIRequestToGemini(openAIReq) ==
    IF UnsupportedEncodingFormat(openAIReq.EncodingFormat) THEN ConvError
    ELSE IF openAIReq.Input.kind = "string"
         THEN [err |-> FALSE, batch |-> <<openAIReq.Input.str>>]
    ELSE IF openAIReq.Input.kind = "array"
         THEN AddContents(openAIReq.Input.elems, 1, << >>)
    ELSE ConvError

\* one EmbedResponseData; Go's index i is zero-based
EmbedResponseData(values, i) ==
    [object |-> "embedding", embedding |-> values, index |-> i]

Usage == [prompt_tokens |-> 0, total_tokens |-> 0]

\* mutant: the index counts from one
ConvertGeminiResponseToOpenAI_OneBased(embeddings, model) ==
    [object |-> "list",
     model |-> model,
     data |-> [i \in 1 .. Len(embeddings) |->
                  EmbedResponseData(embeddings[i], i)],
     usage |-> Usage]

ConvertGeminiResponseToOpenAI(embeddings, model) ==
    [object |-> "list",
     model |-> model,
     data |-> [i \in 1 .. Len(embeddings) |->
                  EmbedResponseData(embeddings[i], i - 1)],
     usage |-> Usage]

\* the batch-size metric asserts that Input is a []interface{}
BatchSizeObservable(input) == input.kind = "array"

(***************************************************************************)
(* modelsHandler: the filter and the mapping of one catalog entry.         *)
(***************************************************************************)
\* mutant: any model that supports some generation method is kept
SupportsEmbedContent_AnyMethod(m) == m.SupportedGenerationMethods /= {}

SupportsEmbedContent(m) == "embedContent" \in m.SupportedGenerationMethods

ModelResponseData(m) ==
    [object |-> "model", id |-> m.Name, created |-> 0, owned_by |-> "google"]

ModelResponse(models) == [object |-> "list", data |-> models]

\* the client whose catalog modelsHandler lists
ListingClient(counter, n) == 0

(***************************************************************************)
(* State.                                                                  *)
(***************************************************************************)
VARIABLES
    geminiClients,   \* len(geminiClients): the size of the pool
    currentClient,   \* the atomic.Int32 rotation counter
    start,           \* the counter's value in the initial state (history)
    pc,              \* pc[r]: where the handler of request r stands
    request,         \* request[r]: what the client sent
    h,               \* h[r]: the handler's local variables
    iter,            \* iter[r]: the ListModels iterator and the models slice
    resp             \* resp[r]: what the client and the metrics observe

vars == <<geminiClients, currentClient, start, pc, request, h, iter, resp>>

NoEmbedResponse == [object |-> "", model |-> "", data |-> << >>, usage |-> Usage]

NoModelResponse == [object |-> "", data |-> << >>]

\* body: "none" nothing written, "text" the line http.Error writes,
\* "json" the complete encoded value, "partial" an encoding that failed
Response(status, metric, body, embed, list) ==
    [status |-> status, metric |-> metric, body |-> body,
     embed |-> embed, list |-> list]

NoResponse == Response(StatusNone, StatusNone, "none", NoEmbedResponse, NoModelResponse)

\* http.Error(w, text, code) followed by the requests_total increment
HttpError(code) == Response(code, code, "text", NoEmbedResponse, NoModelResponse)

\* json.NewEncoder(w).Encode(v): on success the implicit 200 and the whole
\* value; on failure the handler only logs and counts a 500, the status line
\* stays the implicit 200 and the body is cut short
EncodeEmbed(v, ok) ==
    IF ok THEN Response(StatusOK, StatusOK, "json", v, NoModelResponse)
    ELSE Response(StatusOK, StatusInternalServerError, "partial",
                  NoEmbedResponse, NoModelResponse)

EncodeModels(v, ok) ==
    IF ok THEN Response(StatusOK, StatusOK, "json", NoEmbedResponse, v)
    ELSE Response(StatusOK, StatusInternalServerError, "partial",
                  NoEmbedResponse, NoModelResponse)

NoRequestSent == [endpoint |-> "none", method |-> "", body |-> "", sent |-> NoRequest]

NoLocals ==
    [bodyRead |-> FALSE, parsed |-> FALSE, openAIReq |-> NoRequest,
     selected |-> FALSE, observed |-> 0, useIndex |-> 0,
     order |-> 0, haveClient |-> FALSE,
     converted |-> FALSE, batch |-> << >>,
     called |-> FALSE, result |-> << >>, openAIResp |-> NoEmbedResponse]

NoIter == [open |-> FALSE, client |-> 0, catalog |-> << >>, pos |-> 0,
           models |-> << >>, drained |-> FALSE]

\* main() stores 0; each embeddings request served since then that passed
\* parsing has added 1
ServedCounters == 0 .. MaxServed

\* the same over the life of a long-running process: MaxInt32 - 1 is the
\* counter after 2^31 - 2 such requests
ReachedCounters == {0, 1, MaxInt32 - 1}

InitWith(counters) ==
    /\ geminiClients \in 1 .. MaxClients
    /\ currentClient \in counters
    /\ start = currentClient
    /\ pc = [r \in Req |-> "idle"]
    /\ request = [r \in Req |-> NoRequestSent]
    /\ h = [r \in Req |-> NoLocals]
    /\ iter = [r \in Req |-> NoIter]
    /\ resp = [r \in Req |-> NoResponse]

Init == InitWith(ServedCounters)

InitPool == InitWith(ReachedCounters)

(***************************************************************************)
(* embeddingsHandler                                                       *)
(***************************************************************************)
EmbeddingsMethodAllowed(method) == method = "POST"

\* the requests that have passed currentClient.Add(1)
Selected == {q \in Req : h[q].selected}

\* entry to json.Unmarshal: method check, io.ReadAll, json.Unmarshal
EmbeddingsReceive(r, method, body, sent) ==
    /\ pc[r] = "idle"
    /\ request' = [request EXCEPT ![r] =
           [endpoint |-> "embeddings", method |-> method, body |-> body,
            sent |-> IF body = "parsed" THEN sent ELSE NoRequest]]
    /\ IF ~EmbeddingsMethodAllowed(method)
       THEN /\ resp' = [resp EXCEPT ![r] = HttpError(StatusMethodNotAllowed)]
            /\ pc' = [pc EXCEPT ![r] = "done"]
            /\ h' = h
       ELSE IF body /= "parsed"
       THEN /\ resp' = [resp EXCEPT ![r] = HttpError(StatusBadRequest)]
            /\ pc' = [pc EXCEPT ![r] = "done"]
            /\ h' = [h EXCEPT ![r].bodyRead = TRUE]
       ELSE /\ resp' = resp
            /\ pc' = [pc EXCEPT ![r] = "select"]
            /\ h' = [h EXCEPT ![r].bodyRead = TRUE, ![r].parsed = TRUE,
                              ![r].openAIReq = sent]
    /\ UNCHANGED <<geminiClients, currentClient, start, iter>>

\* currentClient.Add(1) % len, geminiClients[useIndex], the conversion
EmbeddingsSelect(r) ==
    /\ pc[r] = "select"
    /\ LET counter == AddInt32(currentClient, 1)
           useIndex == Rem(counter, geminiClients)
           conv == ConvertOpenAIRequestToGemini(h[r].openAIReq)
           inRange == 0 <= useIndex /\ useIndex < geminiClients
           picked == [h EXCEPT ![r].selected = TRUE, ![r].observed = counter,
                               ![r].useIndex = useIndex,
                               ![r].order = Cardinality(Selected) + 1,
                               ![r].haveClient = inRange]
       IN  /\ currentClient' = counter
           /\ IF ~inRange
              THEN \* index out of range: the handler panics
                   /\ h' = picked
                   /\ pc' = [pc EXCEPT ![r] = "panicked"]
                   /\ resp' = resp
              ELSE IF conv.err
              THEN /\ h' = picked
                   /\ pc' = [pc EXCEPT ![r] = "done"]
                   /\ resp' = [resp EXCEPT ![r] = HttpError(StatusBadRequest)]
              ELSE /\ h' = [picked EXCEPT ![r].converted = TRUE,
                                          ![r].batch = conv.batch]
                   /\ pc' = [pc EXCEPT ![r] = "upstream"]
                   /\ resp' = resp
    /\ UNCHANGED <<geminiClients, start, request, iter>>

\* BatchEmbedContents returns; response conversion, metric, encoding
EmbeddingsUpstream(r, failed, result, encoded) ==
    /\ pc[r] = "upstream"
    /\ IF failed
       THEN /\ h' = [h EXCEPT ![r].called = TRUE]
            /\ pc' = [pc EXCEPT ![r] = "done"]
            /\ resp' = [resp EXCEPT ![r] = HttpError(StatusInternalServerError)]
       ELSE /\ h' = [h EXCEPT ![r].called = TRUE, ![r].result = result,
                   ![r].openAIResp = ConvertGeminiResponseToOpenAI(
                                         result, h[r].openAIReq.Model)]
            /\ IF ~BatchSizeObservable(h[r].openAIReq.Input)
               THEN \* the type assertion panics before anything is written
                    /\ pc' = [pc EXCEPT ![r] = "panicked"]
                    /\ resp' = resp
               ELSE /\ pc' = [pc EXCEPT ![r] = "done"]
                    /\ resp' = [resp EXCEPT ![r] = EncodeEmbed(
                          ConvertGeminiResponseToOpenAI(result, h[r].openAIReq.Model),
                          encoded)]
    /\ UNCHANGED <<geminiClients, currentClient, start, request, iter>>

(***************************************************************************)
(* modelsHandler                                                           *)
(***************************************************************************)
\* mutant: POST is let through as well
ModelsMethodAllowed_PostToo(method) == method \in {"GET", "POST"}

ModelsMethodAllowed(method) == method = "GET"

\* mutant: the loop is left as on Done and the models collected are emitted
EnumerationFailed_EmitsCollected(models) ==
    EncodeModels(ModelResponse(models), TRUE)

\* iter.Next() returned an error other than iterator.Done
EnumerationFailed(models) == HttpError(StatusInternalServerError)

\* mutant: the listing takes its client by rotation, like the embeddings
ModelsReceive_Rotating(r, method, catalog) ==
    /\ pc[r] = "idle"
    /\ request' = [request EXCEPT ![r] =
           [endpoint |-> "models", method |-> method, body |-> "",
            sent |-> NoRequest]]
    /\ IF ~ModelsMethodAllowed(method)
       THEN /\ resp' = [resp EXCEPT ![r] = HttpError(StatusMethodNotAllowed)]
            /\ pc' = [pc EXCEPT ![r] = "done"]
            /\ iter' = iter
            /\ currentClient' = currentClient
       ELSE /\ resp' = resp
            /\ pc' = [pc EXCEPT ![r] = "listing"]
            /\ currentClient' = AddInt32(currentClient, 1)
            /\ iter' = [iter EXCEPT ![r] =
                   [open |-> TRUE,
                    client |-> Rem(currentClient', geminiClients),
                    catalog |-> catalog, pos |-> 0, models |-> << >>,
                    drained |-> FALSE]]
    /\ UNCHANGED <<geminiClients, start, h>>

\* method check and geminiClients[0].ListModels
ModelsReceive(r, method, catalog) ==
    /\ pc[r] = "idle"
    /\ request' = [request EXCEPT ![r] =
           [endpoint |-> "models", method |-> method, body |-> "",
            sent |-> NoRequest]]
    /\ IF ~ModelsMethodAllowed(method)
       THEN /\ resp' = [resp EXCEPT ![r] = HttpError(StatusMethodNotAllowed)]
            /\ pc' = [pc EXCEPT ![r] = "done"]
            /\ iter' = iter
       ELSE /\ resp' = resp
            /\ pc' = [pc EXCEPT ![r] = "listing"]
            /\ iter' = [iter EXCEPT ![r] =
                   [open |-> TRUE,
                    client |-> ListingClient(currentClient, geminiClients),
                    catalog |-> catalog, pos |-> 0, models |-> << >>,
                    drained |-> FALSE]]
    /\ UNCHANGED <<geminiClients, currentClient, start, h>>

\* one turn of the loop: iter.Next() fails, yields a model or reports
\* iterator.Done; on Done the list is encoded
ModelsNext(r, failed, encoded) ==
    /\ pc[r] = "listing"
    /\ IF failed
       THEN /\ resp' = [resp EXCEPT ![r] = EnumerationFailed(iter[r].models)]
            /\ pc' = [pc EXCEPT ![r] = "done"]
            /\ iter' = iter
       ELSE IF iter[r].pos = Len(iter[r].catalog)
       THEN /\ resp' = [resp EXCEPT ![r] =
                   EncodeModels(ModelResponse(iter[r].models), encoded)]
            /\ pc' = [pc EXCEPT ![r] = "done"]
            /\ iter' = [iter EXCEPT ![r].drained = TRUE]
       ELSE LET m == iter[r].catalog[iter[r].pos + 1]
            IN  /\ resp' = resp
                /\ pc' = pc
                /\ iter' = [iter EXCEPT
                       ![r].pos = @ + 1,
                       ![r].models = IF SupportsEmbedContent(m)
                                     THEN Append(@, ModelResponseData(m))
                                     ELSE @]
    /\ UNCHANGED <<geminiClients, currentClient, start, request, h>>

\* One request at a time, over every input of the bounded domains.
Next ==
    \/ \E method \in Methods, body \in BodyStates, sent \in EmbedRequest :
           EmbeddingsReceive(1, method, body, sent)
    \/ EmbeddingsSelect(1)
    \/ \E failed \in BOOLEAN, result \in EmbedResults, encoded \in BOOLEAN :
           EmbeddingsUpstream(1, failed, result, encoded)
    \/ \E method \in Methods, catalog \in Catalogs :
           ModelsReceive(1, method, catalog)
    \/ \E failed \in BOOLEAN, encoded \in BOOLEAN :
           ModelsNext(1, failed, encoded)

Spec == Init /\ [][Next]_vars

(***************************************************************************)
(* The pool under concurrent requests: every slot of Req runs a handler,   *)
(* the steps interleave freely, and the inputs are one representative of   *)
(* each path through the handlers.                                         *)
(***************************************************************************)
PoolRequests ==
    [Input : {Str("a"), Array(<<Str("a"), Str("b")>>), Scalar("number", "7")},
     Model : {ModelName}, EncodingFormat : {"", "base64"}]

PoolResults == {<< <<0>>, <<1>> >>}

PoolCatalogs ==
    {<< [Name |-> "models/m1", SupportedGenerationMethods |-> {"embedContent"}],
        [Name |-> "models/m2", SupportedGenerationMethods |-> {"generateContent"}] >>}

NextPool ==
    \/ \E r \in Req, method \in Methods, body \in BodyStates, sent \in PoolRequests :
           EmbeddingsReceive(r, method, body, sent)
    \/ \E r \in Req : EmbeddingsSelect(r)
    \/ \E r \in Req, failed \in BOOLEAN, result \in PoolResults, encoded \in BOOLEAN :
           EmbeddingsUpstream(r, failed, result, encoded)
    \/ \E r \in Req, method \in Methods, catalog \in PoolCatalogs :
           ModelsReceive(r, method, catalog)
    \/ \E r \in Req, failed \in BOOLEAN, encoded \in BOOLEAN :
           ModelsNext(r, failed, encoded)

SpecPool == InitPool /\ [][NextPool]_vars

(***************************************************************************)
(* Properties.                                                             *)
(***************************************************************************)
Finished(r) == pc[r] \in {"done", "panicked"}

\* a POST to the embeddings endpoint whose body parsed
WellFormedPost(r) ==
    /\ request[r].endpoint = "embeddings"
    /\ request[r].method = "POST"
    /\ request[r].body = "parsed"

FormatAccepted(r) == request[r].sent.EncodingFormat \in {"", "float"}

AllStrings(es) == \A i \in 1 .. Len(es) : es[i].kind = "string"

\* the upstream call of r succeeded and returned n vectors
UpstreamReturned(r, n) ==
    /\ h[r].called
    /\ resp[r].status /= StatusInternalServerError
    /\ Len(h[r].result) = n

\* C1: a valid single-string request (POST, well-formed body,
\* encoding_format absent or "float") whose upstream call returned one vector
\* was converted to a batch of exactly one item and is answered with a 200
\* whose data holds exactly one embedding, at index 0.
C1_SingleStringAnswered ==
    \A r \in Req :
        ( /\ WellFormedPost(r)
          /\ request[r].sent.Input.kind = "string"
          /\ FormatAccepted(r)
          /\ UpstreamReturned(r, 1) )
        => /\ Len(h[r].batch) = 1
           /\ pc[r] = "done"
           /\ resp[r].status = StatusOK
           /\ resp[r].body = "json"
           /\ Len(resp[r].embed.data) = 1
           /\ resp[r].embed.data[1].index = 0

\* C2: for an input that is a sequence of N strings (N >= 0) and an upstream
\* result of one vector per submitted item, the request conversion yields the
\* N texts in input order and the response conversion yields exactly N data
\* entries, entry i with index i (zero-based) and the i-th vector unchanged.
C2_RoundTripPreservesCountAndOrder ==
    \A r \in Req :
        LET input == request[r].sent.Input
            n == Len(input.elems)
            data == h[r].openAIResp.data
        IN  ( /\ WellFormedPost(r)
              /\ input.kind = "array"
              /\ AllStrings(input.elems)
              /\ FormatAccepted(r)
              /\ UpstreamReturned(r, n) )
            => /\ Len(h[r].batch) = n
               /\ \A i \in 1 .. n : h[r].batch[i] = input.elems[i].str
               /\ Len(data) = n
               /\ \A i \in 1 .. n :
                      /\ data[i].index = i - 1
                      /\ data[i].embedding = h[r].result[i]
                      /\ data[i].object = "embedding"
               /\ resp[r].body = "json" => resp[r].embed.data = data

\* C2 witness: two different texts answered with two different vectors
C2_Witness ==
    \E r \in Req :
        /\ WellFormedPost(r)
        /\ request[r].sent.Input = Array(<<Str("b"), Str("a")>>)
        /\ UpstreamReturned(r, 2)
        /\ h[r].result = << <<0>>, <<1>> >>
        /\ resp[r].status = StatusOK
        /\ resp[r].body = "json"

\* C2 witness for N = 0: the empty sequence is converted and answered
C2_EmptyReached ==
    \E r \in Req :
        /\ WellFormedPost(r)
        /\ request[r].sent.Input = Array(<< >>)
        /\ UpstreamReturned(r, 0)
        /\ resp[r].body = "json"

\* a mod n for a >= 0 and a + d mod n without forming a + d
ModSum(a, d, n) == ((a % n) + (d % n)) % n

\* C3: with N clients, the i-th selection after the counter stood at start
\* returns the client at index (start + i) mod N; from 0 the first request
\* uses index 1 mod N, and with N = 1 every selection returns client 0.
C3_RoundRobinSequence ==
    \A r \in Req :
        h[r].selected
        => /\ h[r].haveClient
           /\ h[r].useIndex = ModSum(start, h[r].order, geminiClients)
           /\ geminiClients = 1 => h[r].useIndex = 0

\* c = s + k over the integers, for 32-bit c and s and 0 <= k
IntegerSum(c, s, k) == s <= MaxInt32 - k /\ c = s + k

\* s + k in two's-complement 32-bit arithmetic, for 0 <= k
WrappingSum(s, k) ==
    IF s <= MaxInt32 - k THEN s + k ELSE (s - MaxInt32) + (k - 1) + MinInt32

\* C4 as stated: the K requests that passed client selection observed
\* pairwise distinct counter values, these are exactly start+1 .. start+K,
\* and the counter is start + K.
C4_SlotsExactOverIntegers ==
    LET K == Cardinality(Selected)
    IN  /\ \A q, r \in Selected : q /= r => h[q].observed /= h[r].observed
        /\ \A r \in Selected :
               \E j \in 1 .. K : IntegerSum(h[r].observed, start, j)
        /\ IntegerSum(currentClient, start, K)

\* C4 amended: the same with the sums taken in the counter's wrapping
\* 32-bit arithmetic: K distinct observations, exactly the K successors of
\* start, and the counter K steps past start.
C4_SlotsExactWrapping ==
    LET K == Cardinality(Selected)
    IN  /\ \A q, r \in Selected : q /= r => h[q].observed /= h[r].observed
        /\ \A r \in Selected :
               \E j \in 1 .. K : h[r].observed = WrappingSum(start, j)
        /\ currentClient = WrappingSum(start, K)

\* C4 witness: two requests in flight together, both past selection, the
\* second of them having taken the counter past MaxInt32
C4_Witness ==
    \E q, r \in Req :
        /\ q /= r
        /\ pc[q] = "upstream" /\ pc[r] = "upstream"
        /\ h[r].order = 1 /\ h[r].observed = MaxInt32
        /\ h[q].order = 2 /\ h[q].observed = MinInt32

\* C5: every finished request is either a 200 with the complete body or an
\* error status (400, 405, 500) with no usable body; none ends with a
\* partial body or without an outcome.
C5_CompleteOrError ==
    \A r \in Req :
        Finished(r)
        => \/ resp[r].status = StatusOK /\ resp[r].body = "json"
           \/ /\ resp[r].status \in {StatusBadRequest, StatusMethodNotAllowed,
                                     StatusInternalServerError}
              /\ resp[r].body = "text"

\* C6: a well-formed POST whose encoding_format is present and not "float"
\* fails conversion, is answered 400 and reaches no upstream call; with the
\* format absent or "float" a valid input is converted, not rejected.
C6_EncodingFormatRejected ==
    \A r \in Req :
        (WellFormedPost(r) /\ h[r].selected)
        => /\ ~FormatAccepted(r)
              => /\ pc[r] = "done"
                 /\ resp[r].status = StatusBadRequest
                 /\ ~h[r].converted
                 /\ ~h[r].called
           /\ ( /\ FormatAccepted(r)
                /\ \/ request[r].sent.Input.kind = "string"
                   \/ /\ request[r].sent.Input.kind = "array"
                      /\ AllStrings(request[r].sent.Input.elems) )
              => /\ h[r].converted
                 /\ resp[r].status /= StatusBadRequest

\* the input is a string or a sequence of strings
TextInput(input) ==
    \/ input.kind = "string"
    \/ input.kind = "array" /\ AllStrings(input.elems)

\* C7: a well-formed POST whose input is neither a string nor a sequence,
\* or a sequence with a non-string element, fails conversion with no batch,
\* is answered 400 and reaches no upstream call.
C7_InputShapeRejected ==
    \A r \in Req :
        (WellFormedPost(r) /\ h[r].selected /\ ~TextInput(request[r].sent.Input))
        => /\ pc[r] = "done"
           /\ resp[r].status = StatusBadRequest
           /\ ~h[r].converted
           /\ h[r].batch = << >>
           /\ ~h[r].called

\* the method of request r is not the one its endpoint serves
WrongMethod(r) ==
    \/ request[r].endpoint = "embeddings" /\ request[r].method /= "POST"
    \/ request[r].endpoint = "models" /\ request[r].method /= "GET"

\* C8: a request with the wrong method is answered 405 whatever else is
\* wrong with it; its body is neither read nor parsed, no client is selected,
\* the counter is where it was and no upstream call or listing is made.
C8_WrongMethodStopsEarly ==
    \A r \in Req :
        WrongMethod(r)
        => /\ pc[r] = "done"
           /\ resp[r].status = StatusMethodNotAllowed
           /\ ~h[r].bodyRead /\ ~h[r].parsed
           /\ ~h[r].selected
           /\ ~h[r].called
           /\ ~iter[r].open
           /\ currentClient = WrappingSum(start, Cardinality(Selected \ {r}))

\* C8 witness: a GET to the embeddings endpoint with a malformed body
C8_Witness ==
    \E r \in Req :
        /\ request[r].endpoint = "embeddings"
        /\ request[r].method = "GET"
        /\ request[r].body = "malformed"
        /\ resp[r].status = StatusMethodNotAllowed

\* C8 witness: a POST to the models endpoint
C8_ModelsPostRejected ==
    \E r \in Req :
        /\ request[r].endpoint = "models"
        /\ request[r].method = "POST"
        /\ resp[r].status = StatusMethodNotAllowed

\* the entries modelsHandler is to list for a catalog, in catalog order
RECURSIVE EmbeddingModelsOf(_)
EmbeddingModelsOf(catalog) ==
    IF catalog = << >> THEN << >>
    ELSE LET m == Head(catalog)
             rest == EmbeddingModelsOf(Tail(catalog))
         IN  IF "embedContent" \in m.SupportedGenerationMethods
             THEN <<[object |-> "model", id |-> m.Name, created |-> 0,
                     owned_by |-> "google"]>> \o rest
             ELSE rest

\* C9: when the catalog was enumerated to its end without error, the models
\* collected, and the data of the 200 response, are exactly the catalog's
\* models that support embedContent, in catalog order, each with
\* object "model", the upstream name as id, created 0 and owned_by "google";
\* the catalog is that of client 0 wherever the rotation counter stands.
C9_ListsEmbeddingModelsOfFirstClient ==
    \A r \in Req :
        (request[r].endpoint = "models" /\ iter[r].open)
        => /\ iter[r].client = 0
           /\ iter[r].drained
              => /\ iter[r].models = EmbeddingModelsOf(iter[r].catalog)
                 /\ resp[r].status = StatusOK
                 /\ resp[r].body = "json"
                    => resp[r].list =
                         [object |-> "list",
                          data |-> EmbeddingModelsOf(iter[r].catalog)]

\* C9 witness: of two models only the embedding one is listed, while the
\* rotation counter points at another client
C9_Witness ==
    \E r \in Req :
        /\ request[r].endpoint = "models"
        /\ iter[r].catalog =
             << [Name |-> "models/m2",
                 SupportedGenerationMethods |-> {"generateContent"}],
                [Name |-> "models/m1",
                 SupportedGenerationMethods |-> GenerationMethods] >>
        /\ resp[r].status = StatusOK
        /\ resp[r].body = "json"
        /\ Len(resp[r].list.data) = 1
        /\ Rem(currentClient, geminiClients) /= 0

\* C9 witness: two embedding models are listed in catalog order
C9_OrderKept ==
    \E r \in Req :
        /\ resp[r].body = "json"
        /\ Len(resp[r].list.data) = 2
        /\ resp[r].list.data[1].id = "models/m2"
        /\ resp[r].list.data[2].id = "models/m1"

\* C10: a models request answered 500 emits none of the models collected
\* before the error, and a model list is emitted only once the enumeration
\* has reached its end.
C10_EnumerationAllOrNothing ==
    \A r \in Req :
        request[r].endpoint = "models"
        => /\ resp[r].status = StatusInternalServerError
              => /\ resp[r].body = "text"
                 /\ resp[r].list = NoModelResponse
                 /\ ~iter[r].drained
           /\ resp[r].body \in {"json", "partial"}
              => /\ iter[r].drained
                 /\ iter[r].pos = Len(iter[r].catalog)
           /\ (iter[r].open /\ ~iter[r].drained /\ pc[r] = "done")
              => resp[r].status = StatusInternalServerError

\* C10 witness: the enumeration failed after a model had been collected
C10_Witness ==
    \E r \in Req :
        /\ request[r].endpoint = "models"
        /\ resp[r].status = StatusInternalServerError
        /\ Len(iter[r].models) >= 1
        /\ iter[r].pos < Len(iter[r].catalog)

\* C11: the index computed for client selection lies in 0 .. N-1 for every
\* value the signed 32-bit counter takes, also after it has wrapped past
\* MaxInt32, and the selection therefore obtains a client.
C11_IndexInRange ==
    \A r \in Req :
        h[r].selected
        => /\ 0 <= h[r].useIndex
           /\ h[r].useIndex < geminiClients
           /\ h[r].haveClient

\* the requests that passed the method check and body parsing and have gone
\* through client selection since
Consumed == {r \in Req : h[r].parsed /\ pc[r] /= "select"}

\* the requests that never take a rotation slot: answered 405, rejected for
\* an unreadable or malformed body, or sent to the models endpoint
Untouched(r) ==
    \/ resp[r].status = StatusMethodNotAllowed
    \/ request[r].endpoint = "embeddings" /\ request[r].method = "POST"
           /\ request[r].body /= "parsed"
    \/ request[r].endpoint = "models"

\* which requests have taken a slot: none of the untouched ones, and every
\* parsed one past selection, also when it ended 400 or 500 afterwards
SlotsTakenByParsedRequestsOnly ==
    /\ \A r \in Req : Untouched(r) => ~h[r].selected /\ r \notin Consumed
    /\ \A r \in Consumed :
           /\ request[r].endpoint = "embeddings"
           /\ h[r].selected
    /\ \A r \in Req :
           ( /\ WellFormedPost(r)
             /\ resp[r].status \in {StatusBadRequest, StatusInternalServerError} )
           => r \in Consumed

\* C12 as stated: the counter has moved by exactly +1 for each request that
\* passed the method check and body parsing and by nothing else: 405s,
\* unreadable or malformed bodies and models requests leave it alone, a
\* request rejected by conversion or failed upstream has still taken a slot.
C12_PlusOnePerParsedRequest ==
    /\ SlotsTakenByParsedRequestsOnly
    /\ IntegerSum(currentClient, start, Cardinality(Consumed))

\* C12 amended: the same with each +1 taken in the counter's wrapping
\* 32-bit arithmetic.
C12_WrappingPlusOnePerParsedRequest ==
    /\ SlotsTakenByParsedRequestsOnly
    /\ currentClient = WrappingSum(start, Cardinality(Consumed))

\* C12 witness: a request rejected by conversion has taken a slot, a models
\* request answered in full has not
C12_Witness ==
    \E q, r \in Req :
        /\ WellFormedPost(q)
        /\ resp[q].status = StatusBadRequest
        /\ h[q].selected
        /\ request[r].endpoint = "models"
        /\ resp[r].status = StatusOK
        /\ resp[r].body = "json"
        /\ currentClient = WrappingSum(start, 1)

====
